---- MODULE Spec2Model ----
(***************************************************************************)
(* Model of the Amazon Managed Prometheus client of prometheus_mcp_server: *)
(* PrometheusClient.get_workspace and list_workspaces (main.py),           *)
(* PrometheusAuth (auth.py) and AuthenticatedPrometheusClient (client.py). *)
(*                                                                         *)
(* Text is a sequence of characters (one-character strings; a few opaque   *)
(* tokens such as a host stand for runs of URL-safe characters).  Python's *)
(* None is the one-element sequence None, which is no text.                *)
(* Each invocation of a client method is one action; it records, in        *)
(* program order, the collaborator calls it made (events) and how it       *)
(* ended (outcome).  Return hands control back to the caller.              *)
(* The tool functions of main.py run concurrently, one frame per caller    *)
(* in calls; PrometheusTestServer of simple_server.py runs step by step    *)
(* in suite.                                                               *)
(***************************************************************************)
EXTENDS Integers, Sequences, FiniteSets, TLC

VARIABLES inventory, credentials, region, op, args, events, outcome,
          default_client, calls, suite

vars == <<inventory, credentials, region, op, args, events, outcome,
          default_client, calls, suite>>

\* the module-level client of main.py, the tool invocations in flight and the
\* run of simple_server's test suite
toolVars == <<default_client, calls, suite>>

-----------------------------------------------------------------------------
(* Bounds *)

\* longest selector list handed to get_series
MaxMatch == 2

\* tool invocations that can be in flight at once
MaxCallers == 2

-----------------------------------------------------------------------------
(* Python values *)

None == <<"<None>">>
Absent == <<"<absent>">>

\* bool(x) of a str | None value
Truthy(x) == x # None /\ x # <<>>

\* d.get(key) / d.get(key, default) on a field that may be absent
Get(field, default) == IF field = Absent THEN default ELSE field

\* a keyword argument the caller passes or leaves to its default
Omitted == [given |-> FALSE]
Given(v) == [given |-> TRUE, v |-> v]
\* Bind that takes the default whatever the caller passed
Bind_DefaultOnly(arg, default) == default

Bind(arg, default) == IF arg.given THEN arg.v ELSE default

RECURSIVE Join(_, _)
Join(ss, sep) ==
    IF ss = <<>> THEN <<>>
    ELSE IF Len(ss) = 1 THEN Head(ss)
    ELSE Head(ss) \o sep \o Join(Tail(ss), sep)

\* str(x) of a str | None value
Str(x) == IF x = None THEN <<"N", "o", "n", "e">> ELSE x

\* repr(s) of a str without quotes or escapes
ReprStr(s) == <<"'">> \o s \o <<"'">>

\* str(l) of a list of str
ReprList(l) ==
    <<"[">> \o Join([i \in 1..Len(l) |-> ReprStr(l[i])], <<",", " ">>) \o <<"]">>

-----------------------------------------------------------------------------
(* URL encoding: urllib.parse and requests *)

Host == "https://aps-workspaces"

\* characters never quoted by urllib.parse.quote: letters, digits and "_.-~"
\* (Host stands for a run of them and of the "://" requote_uri leaves alone)
Letters ==
    {"a", "b", "c", "d", "e", "f", "g", "h", "i", "j", "k", "l", "m", "n", "o", "p",
     "q", "r", "s", "t", "u", "v", "w", "x", "y", "z",
     "A", "B", "C", "D", "E", "F", "G", "H", "I", "J", "K", "L", "M", "N", "O", "P",
     "Q", "R", "S", "T", "U", "V", "W", "X", "Y", "Z"}
Digits == {"0", "1", "2", "3", "4", "5", "6", "7", "8", "9"}
AlwaysSafe == Letters \cup Digits \cup {"_", ".", "-", "~", Host}

\* characters requests.utils.requote_uri leaves alone besides AlwaysSafe
RequoteSafe ==
    {"!", "#", "$", "%", "&", "'", "(", ")", "*", "+", ",", "/", ":", ";", "=",
     "?", "@", "[", "]", "~"}

PctCode(c) ==
    CASE c = " " -> <<"%", "2", "0">>
      [] c = "'" -> <<"%", "2", "7">>
      [] c = "+" -> <<"%", "2", "B">>
      [] c = "," -> <<"%", "2", "C">>
      [] c = "/" -> <<"%", "2", "F">>
      [] c = ":" -> <<"%", "3", "A">>
      [] c = "=" -> <<"%", "3", "D">>
      [] c = "?" -> <<"%", "3", "F">>
      [] c = "[" -> <<"%", "5", "B">>
      [] c = "]" -> <<"%", "5", "D">>
      [] c = "{" -> <<"%", "7", "B">>
      [] c = "}" -> <<"%", "7", "D">>
      [] c = "%" -> <<"%", "2", "5">>
      [] c = "&" -> <<"%", "2", "6">>

\* urllib.parse.quote(s, safe)
RECURSIVE quote(_, _)
quote(s, safe) ==
    IF s = <<>> THEN <<>>
    ELSE (IF Head(s) \in AlwaysSafe \cup safe THEN <<Head(s)>> ELSE PctCode(Head(s)))
         \o quote(Tail(s), safe)

\* urllib.parse.quote_plus(s): a space becomes "+", everything unsafe "%XX"
quote_plus(s) ==
    LET q == quote(s, {" "})
    IN  [i \in 1..Len(q) |-> IF q[i] = " " THEN "+" ELSE q[i]]

\* a params dict is the sequence of its items in insertion order; an item is
\* [k |-> key, list |-> FALSE, v |-> text] or [k |-> key, list |-> TRUE, v |-> list of text]
EncodePair(k, v) == quote_plus(k) \o <<"=">> \o quote_plus(v)

\* urllib.parse.urlencode(params), doseq left False: each value goes through str()
urlencode(params) ==
    Join([i \in 1..Len(params) |->
            EncodePair(params[i].k,
                       IF params[i].list THEN ReprList(params[i].v)
                       ELSE Str(params[i].v))],
         <<"&">>)

\* requests' RequestEncodingMixin._encode_params: a list value gives one pair
\* per element, None values are dropped, then urlencode(..., doseq=True)
RECURSIVE FlattenParams(_)
FlattenParams(params) ==
    IF params = <<>> THEN <<>>
    ELSE LET p == Head(params)
             vs == IF p.list THEN p.v ELSE <<p.v>>
             kept == SelectSeq(vs, LAMBDA v : v # None)
         IN  [i \in 1..Len(kept) |-> [k |-> p.k, v |-> kept[i]]]
             \o FlattenParams(Tail(params))

requests_encode_params(params) ==
    LET flat == FlattenParams(params)
    IN  Join([i \in 1..Len(flat) |-> EncodePair(flat[i].k, flat[i].v)], <<"&">>)

\* requests.utils.requote_uri
requote_uri(url) == quote(url, RequoteSafe)

\* the URL requests.get(url, params=params) puts on the wire
PreparedUrl(url, params) ==
    LET q == requests_encode_params(params)
    IN  requote_uri(IF q = <<>> THEN url ELSE url \o <<"?">> \o q)

\* the part of a URL after its first "?", empty when there is none
RECURSIVE QueryString(_)
QueryString(url) ==
    IF url = <<>> THEN <<>>
    ELSE IF Head(url) = "?" THEN Tail(url)
    ELSE QueryString(Tail(url))

\* rstrip taking one trailing separator off and no more
rstrip_Once(s) ==
    IF s # <<>> /\ s[Len(s)] = "/" THEN SubSeq(s, 1, Len(s) - 1) ELSE s

\* str.rstrip('/')
RECURSIVE rstrip(_)
rstrip(s) ==
    IF s # <<>> /\ s[Len(s)] = "/" THEN rstrip(SubSeq(s, 1, Len(s) - 1)) ELSE s

-----------------------------------------------------------------------------
(* The inventory collaborator (boto3 "amp" client) and its raw records *)

Ws1 == <<"w", "s", "-", "1">>
Ws2 == <<"w", "s", "-", "2">>
WorkspaceIds == {Ws1, Ws2}

Regions == {"us-east-1", "us-west-2"}

\* the endpoint of a provisioned workspace, with and without trailing separators
EndpointBase(id) == <<Host, "/">> \o id
Endpoints(id) ==
    {Absent, <<>>, EndpointBase(id), EndpointBase(id) \o <<"/">>,
     EndpointBase(id) \o <<"/", "/">>}

\* a status is a plain string or a compound object whose statusCode may be absent
StatusStr(s) == [t |-> "str", v |-> s]
StatusDict(code) == [t |-> "dict", statusCode |-> code]
Active == <<"A", "C", "T", "I", "V", "E">>
Unknown == <<"U", "N", "K", "N", "O", "W", "N">>
Statuses == {StatusStr(Active), StatusDict(Active), StatusDict(Absent)}

\* a creation time is a native datetime (with its two text conversions) or a string
NativeTime == [t |-> "datetime",
               isoformat |-> <<"2", "0", "2", "3", "T", "0", "0">>,
               str |-> <<"2", "0", "2", "3", " ", "0", "0">>]
TextTime == [t |-> "str", v |-> <<"2", "0", "2", "3", "T", "0", "0", "Z">>]

\* a status or a creation time the record does not have
Missing == [t |-> "absent"]

Arn(id) == <<"a", "r", "n", ":">> \o id

RawRecord(id, st, ep) ==
    [workspaceId |-> id, alias |-> Absent, arn |-> Arn(id), status |-> st,
     prometheusEndpoint |-> ep, createdAt |-> NativeTime, tags |-> Absent]

\* the records the inventory may hold for an identifier.  For ws-1: every
\* endpoint shape under a plain status and every status shape under an
\* endpoint; for ws-2: one provisioned record.
RawRecords(id) ==
    IF id = Ws1
    THEN {RawRecord(id, StatusStr(Active), ep) : ep \in Endpoints(id)}
         \cup {RawRecord(id, st, EndpointBase(id)) : st \in Statuses}
    ELSE {RawRecord(id, StatusStr(Active), EndpointBase(id))}

\* The shapes a raw record can have, field by field.  A status code is any
\* string, a value of the service's enumeration or not.  A tags mapping is the
\* sequence key, value, key, value, ... of its items; {} is <<>>.
Creating == <<"C", "R", "E", "A", "T", "I", "N", "G">>
Retired == <<"R", "E", "T", "I", "R", "E", "D">>
StatusShapes ==
    {Missing, StatusStr(Active), StatusStr(Retired), StatusDict(Active),
     StatusDict(Creating), StatusDict(Retired), StatusDict(Absent)}
CreatedShapes == {Missing, NativeTime, TextTime}
TagShapes == {Absent, <<>>, <<"Environment", "test">>}
AliasShapes == {Absent, <<"t", "e", "s", "t">>}

ShapedRecords(id) ==
    {[workspaceId |-> wid, alias |-> al, arn |-> arn, status |-> st,
      prometheusEndpoint |-> ep, createdAt |-> cr, tags |-> tg] :
        wid \in {id, Absent}, al \in AliasShapes, arn \in {Arn(id), Absent},
        st \in StatusShapes, ep \in {Absent, EndpointBase(id)},
        cr \in CreatedShapes, tg \in TagShapes}

\* the order in which list_workspaces of the inventory gives its records
WorkspaceOrder == <<Ws1, Ws2>>

\* describe_workspace of an unknown identifier raises botocore's ClientError
NotFound == [t |-> "notfound"]
NotFoundError(id) ==
    [kind |-> "ClientError",
     msg |-> <<"ResourceNotFoundException: ">> \o id]

-----------------------------------------------------------------------------
(* How an invocation ends, and the collaborator calls it makes *)

Returned(v) == [tag |-> "return", value |-> v]
Raised(e) == [tag |-> "raise", kind |-> e.kind, msg |-> e.msg]
NoOutcome == [tag |-> "none"]

DescribeEvent(id) == [ev |-> "describe", ws |-> id]
ListEvent == [ev |-> "list"]
SignEvent(method, url, reg) == [ev |-> "sign", method |-> method, url |-> url, region |-> reg]
\* a GET: the endpoint and params handed to requests.get, and the URL on the wire
GetEvent(endpoint, params, url, headers, timeout) ==
    [ev |-> "get", endpoint |-> endpoint, params |-> params, url |-> url,
     headers |-> headers, timeout |-> timeout]
ResponseEvent(resp) == [ev |-> "response", resp |-> resp]

\* a step of a method body: the events so far and, once it has ended, the outcome
Step(evs, out) == [events |-> evs, outcome |-> out]

-----------------------------------------------------------------------------
(* main.py: PrometheusClient.get_workspace and list_workspaces *)

\* NormalizeStatus taking a compound status for unknown whatever its code
NormalizeStatus_DictUnknown(status) ==
    IF status.t = "dict" THEN Unknown
    ELSE IF status.t = "str" THEN status.v
    ELSE None

\* status = workspace.get("status"); a dict gives its statusCode or "UNKNOWN",
\* a missing status stays None
NormalizeStatus(status) ==
    IF status.t = "dict" THEN Get(status.statusCode, Unknown)
    ELSE IF status.t = "str" THEN status.v
    ELSE None

\* created_at: isoformat() when the value has it, str() otherwise; str() of a
\* str is the str itself, str() of the None a missing field gives is "None"
NormalizeCreatedAt(created) ==
    IF created.t = "datetime" THEN created.isoformat
    ELSE IF created.t = "str" THEN created.v
    ELSE Str(None)

\* WorkspaceInfo with tags read by a plain get, None when the record has none
WorkspaceInfo_TagsNone(raw) ==
    [workspace_id |-> raw.workspaceId,
     alias |-> Get(raw.alias, None),
     arn |-> raw.arn,
     status |-> NormalizeStatus(raw.status),
     prometheus_endpoint |-> Get(raw.prometheusEndpoint, None),
     created_at |-> NormalizeCreatedAt(raw.createdAt),
     tags |-> Get(raw.tags, None)]

\* the keyword arguments of the WorkspaceInfo(...) call
WorkspaceInfo(raw) ==
    [workspace_id |-> raw.workspaceId,
     alias |-> Get(raw.alias, None),
     arn |-> raw.arn,
     status |-> NormalizeStatus(raw.status),
     prometheus_endpoint |-> Get(raw.prometheusEndpoint, None),
     created_at |-> NormalizeCreatedAt(raw.createdAt),
     tags |-> Get(raw.tags, <<>>)]

KeyError(key) == [kind |-> "KeyError", msg |-> <<"'", key, "'">>]
ValidationError(field) ==
    [kind |-> "ValidationError", msg |-> <<field, ": Input should be a valid string">>]

\* NormalizeWorkspace with status validated against the service's enumeration
NormalizeWorkspace_EnumStatus(raw) ==
    IF raw.workspaceId = Absent THEN Raised(KeyError("workspaceId"))
    ELSE IF raw.arn = Absent THEN Raised(KeyError("arn"))
    ELSE IF WorkspaceInfo(raw).status \notin {Active, Creating, Unknown}
         THEN Raised(ValidationError("status"))
    ELSE Returned(WorkspaceInfo(raw))

\* the body of the normalization: workspace["workspaceId"] and workspace["arn"]
\* raise KeyError on a record without them, and the pydantic model refuses a
\* status that is no str; created_at is a str by then and tags a dict
NormalizeWorkspace(raw) ==
    IF raw.workspaceId = Absent THEN Raised(KeyError("workspaceId"))
    ELSE IF raw.arn = Absent THEN Raised(KeyError("arn"))
    ELSE IF WorkspaceInfo(raw).status = None THEN Raised(ValidationError("status"))
    ELSE Returned(WorkspaceInfo(raw))

\* get_workspace answering from a record kept from an earlier call
get_workspace_Kept(inv, id) ==
    [events |-> <<>>,
     outcome |-> Returned(WorkspaceInfo(RawRecord(id, StatusStr(Active), EndpointBase(id))))]

\* get_workspace raising an error of its own in place of the collaborator's
get_workspace_Generic(inv, id) ==
    IF inv[id] = NotFound
    THEN Step(<<DescribeEvent(id)>>,
              Raised([kind |-> "Exception", msg |-> <<"Failed to get workspace">>]))
    ELSE Step(<<DescribeEvent(id)>>, NormalizeWorkspace(inv[id]))

\* one describe_workspace call; its ClientError is logged and re-raised, and
\* so is any error of the normalization
get_workspace(inv, id) ==
    IF inv[id] = NotFound
    THEN Step(<<DescribeEvent(id)>>, Raised(NotFoundError(id)))
    ELSE Step(<<DescribeEvent(id)>>, NormalizeWorkspace(inv[id]))

\* the records list_workspaces of the inventory returns, in its order
Listed(inv) ==
    LET present == SelectSeq(WorkspaceOrder, LAMBDA id : inv[id] # NotFound)
    IN  [i \in 1..Len(present) |-> inv[present[i]]]

\* the body of the loop of list_workspaces: the same normalization, written
\* out a second time
ListNormalize(workspace) ==
    LET status == IF workspace.status.t = "dict"
                  THEN Get(workspace.status.statusCode, Unknown)
                  ELSE IF workspace.status.t = "str" THEN workspace.status.v
                  ELSE None
        created_at == IF workspace.createdAt.t = "datetime"
                      THEN workspace.createdAt.isoformat
                      ELSE IF workspace.createdAt.t = "str" THEN workspace.createdAt.v
                      ELSE Str(None)
    IN  IF workspace.workspaceId = Absent THEN Raised(KeyError("workspaceId"))
        ELSE IF workspace.arn = Absent THEN Raised(KeyError("arn"))
        ELSE IF status = None THEN Raised(ValidationError("status"))
        ELSE Returned([workspace_id |-> workspace.workspaceId,
                       alias |-> Get(workspace.alias, None),
                       arn |-> workspace.arn,
                       status |-> status,
                       prometheus_endpoint |-> Get(workspace.prometheusEndpoint, None),
                       created_at |-> created_at,
                       tags |-> Get(workspace.tags, <<>>)])

\* a loop that appends one result per record: the first error ends the call
Collect(outs) ==
    IF \E i \in DOMAIN outs : outs[i].tag = "raise"
    THEN outs[CHOOSE i \in DOMAIN outs :
                /\ outs[i].tag = "raise"
                /\ \A j \in 1..(i - 1) : outs[j].tag # "raise"]
    ELSE Returned([i \in DOMAIN outs |-> outs[i].value])

\* the inventory refuses the list call with botocore's ClientError
AccessDenied ==
    [kind |-> "ClientError",
     msg |-> <<"AccessDeniedException: not authorized to perform aps:ListWorkspaces">>]

\* one list_workspaces call of the inventory, which answers or refuses, then
\* the loop; every error is logged and re-raised
list_workspaces(inv) ==
    {Step(<<ListEvent, ResponseEvent([kind |-> "denied"])>>, Raised(AccessDenied)),
     Step(<<ListEvent, ResponseEvent([kind |-> "listed"])>>,
          Collect([i \in DOMAIN Listed(inv) |-> ListNormalize(Listed(inv)[i])]))}

-----------------------------------------------------------------------------
(* simple_server.py: PrometheusClient, a second copy of the two methods *)

\* SimpleListNormalize turning a native creation time into text with str()
SimpleListNormalize_StrTime(workspace) ==
    LET status == IF workspace.status.t = "dict"
                  THEN Get(workspace.status.statusCode, Unknown)
                  ELSE IF workspace.status.t = "str" THEN workspace.status.v
                  ELSE None
        created_at == IF workspace.createdAt.t = "datetime" THEN workspace.createdAt.str
                      ELSE IF workspace.createdAt.t = "str" THEN workspace.createdAt.v
                      ELSE Str(None)
    IN  IF workspace.workspaceId = Absent THEN Raised(KeyError("workspaceId"))
        ELSE IF workspace.arn = Absent THEN Raised(KeyError("arn"))
        ELSE IF status = None THEN Raised(ValidationError("status"))
        ELSE Returned([workspace_id |-> workspace.workspaceId,
                       alias |-> Get(workspace.alias, None),
                       arn |-> workspace.arn,
                       status |-> status,
                       prometheus_endpoint |-> Get(workspace.prometheusEndpoint, None),
                       created_at |-> created_at,
                       tags |-> Get(workspace.tags, <<>>)])

\* the body of the loop of simple_server's list_workspaces
SimpleListNormalize(workspace) ==
    LET status == IF workspace.status.t = "dict"
                  THEN Get(workspace.status.statusCode, Unknown)
                  ELSE IF workspace.status.t = "str" THEN workspace.status.v
                  ELSE None
        created_at == IF workspace.createdAt.t = "datetime"
                      THEN workspace.createdAt.isoformat
                      ELSE IF workspace.createdAt.t = "str" THEN workspace.createdAt.v
                      ELSE Str(None)
    IN  IF workspace.workspaceId = Absent THEN Raised(KeyError("workspaceId"))
        ELSE IF workspace.arn = Absent THEN Raised(KeyError("arn"))
        ELSE IF status = None THEN Raised(ValidationError("status"))
        ELSE Returned([workspace_id |-> workspace.workspaceId,
                       alias |-> Get(workspace.alias, None),
                       arn |-> workspace.arn,
                       status |-> status,
                       prometheus_endpoint |-> Get(workspace.prometheusEndpoint, None),
                       created_at |-> created_at,
                       tags |-> Get(workspace.tags, <<>>)])

simple_list_workspaces(inv) ==
    {Step(<<ListEvent, ResponseEvent([kind |-> "denied"])>>, Raised(AccessDenied)),
     Step(<<ListEvent, ResponseEvent([kind |-> "listed"])>>,
          Collect([i \in DOMAIN Listed(inv) |-> SimpleListNormalize(Listed(inv)[i])]))}

\* the normalization in simple_server's get_workspace
SimpleGetNormalize(workspace) ==
    LET status == IF workspace.status.t = "dict"
                  THEN Get(workspace.status.statusCode, Unknown)
                  ELSE IF workspace.status.t = "str" THEN workspace.status.v
                  ELSE None
        created_at == IF workspace.createdAt.t = "datetime"
                      THEN workspace.createdAt.isoformat
                      ELSE IF workspace.createdAt.t = "str" THEN workspace.createdAt.v
                      ELSE Str(None)
    IN  IF workspace.workspaceId = Absent THEN Raised(KeyError("workspaceId"))
        ELSE IF workspace.arn = Absent THEN Raised(KeyError("arn"))
        ELSE IF status = None THEN Raised(ValidationError("status"))
        ELSE Returned([workspace_id |-> workspace.workspaceId,
                       alias |-> Get(workspace.alias, None),
                       arn |-> workspace.arn,
                       status |-> status,
                       prometheus_endpoint |-> Get(workspace.prometheusEndpoint, None),
                       created_at |-> created_at,
                       tags |-> Get(workspace.tags, <<>>)])

simple_get_workspace(inv, id) ==
    IF inv[id] = NotFound
    THEN Step(<<DescribeEvent(id)>>, Raised(NotFoundError(id)))
    ELSE Step(<<DescribeEvent(id)>>, SimpleGetNormalize(inv[id]))

-----------------------------------------------------------------------------
(* auth.py: PrometheusAuth *)

CredentialsError == [kind |-> "ValueError", msg |-> <<"AWS credentials not found">>]

\* SignedHeaders computed for another service name
SignedHeaders_OtherService(reg, method, url) ==
    [Authorization |-> [service |-> "execute-api", region |-> reg, method |-> method,
                        url |-> url],
     ContentType |-> None]

\* the header set SigV4Auth(credentials, "aps", region).add_auth computes: the
\* signature covers the method and the full URL, query string included
SignedHeaders(reg, method, url) ==
    [Authorization |-> [service |-> "aps", region |-> reg, method |-> method, url |-> url],
     ContentType |-> None]

\* sign_request without the test of the credentials
sign_request_Unchecked(creds, reg, method, url) ==
    [events |-> <<SignEvent(method, url, reg)>>,
     outcome |-> Returned(SignedHeaders(reg, method, url))]

\* "if not self.credentials" raises before anything is signed
sign_request(creds, reg, method, url) ==
    IF ~creds
    THEN Step(<<SignEvent(method, url, reg)>>, Raised(CredentialsError))
    ELSE Step(<<SignEvent(method, url, reg)>>, Returned(SignedHeaders(reg, method, url)))

\* get_signed_headers handing out a header set without a signing call
get_signed_headers_Reused(creds, reg, method, url, params) ==
    [events |-> <<>>, outcome |-> Returned(SignedHeaders(reg, method, url))]

\* "if params:" is false for None and for an empty dict alike; both are <<>> here
get_signed_headers(creds, reg, method, url, params) ==
    LET full_url == IF params # <<>>
                    THEN url \o <<"?">> \o urlencode(params)
                    ELSE url
    IN  sign_request(creds, reg, method, full_url)

-----------------------------------------------------------------------------
(* The upstream's answer to one GET, as requests reports it *)

Success == <<"success">>
Error == <<"error">>

\* a JSON object body: each envelope field is a value, null (None) or absent
Envelope(st, da, er, wa) ==
    [t |-> "object", status |-> st, data |-> da, error |-> er, warnings |-> wa]
NonJsonBody == [t |-> "text"]
JsonListBody == [t |-> "list"]

Envelopes ==
    {Envelope(st, da, er, wa) :
        st \in {Absent, Success, Error},
        da \in {Absent, None, <<"vector">>},
        er \in {Absent, <<"bad_data">>},
        wa \in {Absent, <<"slow">>}}

Bodies == Envelopes \cup {NonJsonBody, JsonListBody}

HttpResponse(code, body) == [kind |-> "http", code |-> code, body |-> body]

Responses ==
    {[kind |-> "timeout"], [kind |-> "connection"]}
    \cup {HttpResponse(code, NonJsonBody) : code \in {404, 500}}
    \cup {HttpResponse(200, b) : b \in Bodies}
    \cup {HttpResponse(300, b) : b \in {NonJsonBody, Envelope(Success, <<"vector">>, Absent, Absent)}}

TimeoutError == [kind |-> "Timeout", msg |-> <<"Read timed out">>]
ConnectionError == [kind |-> "ConnectionError", msg |-> <<"Connection refused">>]
HTTPError(code) == [kind |-> "HTTPError", msg |-> <<"HTTP status ", ToString(code)>>]
JSONDecodeError == [kind |-> "JSONDecodeError", msg |-> <<"Expecting value">>]
AttributeError == [kind |-> "AttributeError", msg |-> <<"no attribute 'get'">>]

\* requests.get(...) sends the GET once and blocks; a timeout or a network
\* error raises, any HTTP answer is returned
requests_get(resp) ==
    IF resp.kind = "timeout" THEN Raised(TimeoutError)
    ELSE IF resp.kind = "connection" THEN Raised(ConnectionError)
    ELSE Returned(resp)

\* response.raise_for_status() raises for a 4xx or a 5xx status only
raise_for_status(response) ==
    IF response.code >= 400 /\ response.code < 600
    THEN Raised(HTTPError(response.code))
    ELSE Returned(response)

\* response.json() raises when the body is no JSON document
json(response) ==
    IF response.body.t = "text" THEN Raised(JSONDecodeError) ELSE Returned(response.body)

\* raise_for_status() then json(): the decoded body, or the error raised
ReadResponse(response) ==
    IF raise_for_status(response).tag = "raise" THEN raise_for_status(response)
    ELSE json(response)

-----------------------------------------------------------------------------
(* client.py: AuthenticatedPrometheusClient *)

\* timeout: int = 30
DefaultTimeout == 30

DefaultStep == <<"1", "5", "s">>

EndpointError(id) ==
    [kind |-> "ValueError",
     msg |-> <<"Workspace ">> \o id \o <<" does not have a Prometheus endpoint">>]

QueryFailed(result) ==
    [kind |-> "ValueError",
     msg |-> <<"Query failed: ">> \o Str(Get(result.error, None))]

Param(k, v) == [k |-> k, list |-> FALSE, v |-> v]
ListParam(k, v) == [k |-> k, list |-> TRUE, v |-> v]

QueryPath == <<"/", "a", "p", "i", "/", "v", "1", "/", "q", "u", "e", "r", "y">>
RangePath == QueryPath \o <<"_", "r", "a", "n", "g", "e">>
SeriesPath == <<"/", "a", "p", "i", "/", "v", "1", "/", "s", "e", "r", "i", "e", "s">>
LabelPath(label) ==
    <<"/", "a", "p", "i", "/", "v", "1", "/", "l", "a", "b", "e", "l", "/">> \o label
    \o <<"/", "v", "a", "l", "u", "e", "s">>

KeyQuery == <<"q", "u", "e", "r", "y">>
KeyStart == <<"s", "t", "a", "r", "t">>
KeyEnd == <<"e", "n", "d">>
KeyStep == <<"s", "t", "e", "p">>
KeyMatch == <<"m", "a", "t", "c", "h", "[", "]">>

\* the request a call is routed to: its URL and its params dict (<<>>: no params)
Request(endpoint, params) == [endpoint |-> endpoint, params |-> params]

\* RouteQuery with the range branch lost: every query goes out as an instant query
RouteQuery_AlwaysInstant(base_url, a) ==
    [endpoint |-> base_url \o QueryPath,
     params |-> <<[k |-> KeyQuery, list |-> FALSE, v |-> a.query]>>]

\* RouteQuery with "step or '15s'" written as plain step
RouteQuery_StepAsGiven(base_url, a) ==
    IF Truthy(a.start_time) /\ Truthy(a.end_time)
    THEN [endpoint |-> base_url \o RangePath,
          params |-> <<[k |-> KeyQuery, list |-> FALSE, v |-> a.query],
                       [k |-> KeyStart, list |-> FALSE, v |-> a.start_time],
                       [k |-> KeyEnd, list |-> FALSE, v |-> a.end_time],
                       [k |-> KeyStep, list |-> FALSE, v |-> a.step]>>]
    ELSE [endpoint |-> base_url \o QueryPath,
          params |-> <<[k |-> KeyQuery, list |-> FALSE, v |-> a.query]>>]

\* execute_query: "Determine query type and endpoint"
RouteQuery(base_url, a) ==
    IF Truthy(a.start_time) /\ Truthy(a.end_time)
    THEN Request(base_url \o RangePath,
                 <<Param(KeyQuery, a.query), Param(KeyStart, a.start_time),
                   Param(KeyEnd, a.end_time),
                   Param(KeyStep, IF Truthy(a.step) THEN a.step ELSE DefaultStep)>>)
    ELSE Request(base_url \o QueryPath, <<Param(KeyQuery, a.query)>>)

\* get_label_values: the label name goes into the path as it is
RouteLabelValues(base_url, a) == Request(base_url \o LabelPath(a.label_name), <<>>)

\* RouteSeries sending start and end only as a pair
RouteSeries_BoundsTogether(base_url, a) ==
    [endpoint |-> base_url \o SeriesPath,
     params |-> <<[k |-> KeyMatch, list |-> TRUE, v |-> a.match]>>
                \o (IF Truthy(a.start_time) /\ Truthy(a.end_time)
                    THEN <<[k |-> KeyStart, list |-> FALSE, v |-> a.start_time],
                           [k |-> KeyEnd, list |-> FALSE, v |-> a.end_time]>>
                    ELSE <<>>)]

\* get_series: match[] holds the selector list; start and end only when truthy
RouteSeries(base_url, a) ==
    Request(base_url \o SeriesPath,
            <<ListParam(KeyMatch, a.match)>>
            \o (IF Truthy(a.start_time) THEN <<Param(KeyStart, a.start_time)>> ELSE <<>>)
            \o (IF Truthy(a.end_time) THEN <<Param(KeyEnd, a.end_time)>> ELSE <<>>))

\* QueryResult with data defaulted to an empty list, as the list operations do
QueryResult_DataDefault(a, result) ==
    [workspace_id |-> a.workspace_id,
     query |-> a.query,
     status |-> Get(result.status, None),
     data |-> Get(result.data, <<>>),
     error |-> Get(result.error, None),
     warnings |-> Get(result.warnings, None)]

\* execute_query's return value: the envelope's fields, None for a missing one
QueryResult(a, result) ==
    [workspace_id |-> a.workspace_id,
     query |-> a.query,
     status |-> Get(result.status, None),
     data |-> Get(result.data, None),
     error |-> Get(result.error, None),
     warnings |-> Get(result.warnings, None)]

\* ListResult without the status check
ListResult_AnyStatus(a, result) == Returned(Get(result.data, <<>>))

\* get_label_values and get_series: data of a success envelope, ValueError otherwise
ListResult(a, result) ==
    IF Get(result.status, None) = Success
    THEN Returned(Get(result.data, <<>>))
    ELSE Raised(QueryFailed(result))

\* the endpoint check left out
EndpointMissing_Never(workspace) == FALSE

\* "if not workspace.prometheus_endpoint": None and "" both count as missing
EndpointMissing(workspace) == ~Truthy(workspace.prometheus_endpoint)

\* a retry: the GET goes out twice
Sent_Twice(req, headers, timeout) ==
    LET get == [ev |-> "get", endpoint |-> req.endpoint, params |-> req.params,
                url |-> PreparedUrl(req.endpoint, req.params),
                headers |-> headers, timeout |-> timeout]
    IN  <<get, get>>

\* the one requests.get call of an operation
Sent(req, headers, timeout) ==
    <<GetEvent(req.endpoint, req.params, PreparedUrl(req.endpoint, req.params),
               headers, timeout)>>

\* QueryOutcome with the except clauses answering for the upstream: an error
\* becomes a result whose status is "error"
QueryOutcome_Swallowed(a, resp) ==
    IF requests_get(resp).tag = "raise"
       \/ ReadResponse(requests_get(resp).value).tag = "raise"
       \/ ReadResponse(requests_get(resp).value).value.t # "object"
    THEN Returned([workspace_id |-> a.workspace_id, query |-> a.query,
                   status |-> Error, data |-> None, error |-> <<"query failed">>,
                   warnings |-> None])
    ELSE Returned(QueryResult(a, ReadResponse(requests_get(resp).value).value))

\* what follows requests.get in execute_query: raise_for_status, json, the
\* result dict; every except clause logs and re-raises
QueryOutcome(a, resp) ==
    LET response == requests_get(resp)
    IN  IF response.tag = "raise" THEN response
        ELSE LET result == ReadResponse(response.value)
             IN  IF result.tag = "raise" THEN result
                 ELSE IF result.value.t # "object" THEN Raised(AttributeError)
                 ELSE Returned(QueryResult(a, result.value))

\* what follows requests.get in get_label_values and in get_series
ListOutcome(a, resp) ==
    LET response == requests_get(resp)
    IN  IF response.tag = "raise" THEN response
        ELSE LET result == ReadResponse(response.value)
             IN  IF result.tag = "raise" THEN result
                 ELSE IF result.value.t # "object" THEN Raised(AttributeError)
                 ELSE ListResult(a, result.value)

\* The three operations.  Each gives the set of ways the invocation can go:
\* one way when it ends before the GET, one per upstream answer after it.
execute_query(inv, creds, reg, a) ==
    LET ws == get_workspace(inv, a.workspace_id)
    IN  IF ws.outcome.tag = "raise" THEN {ws}
        ELSE
        LET workspace == ws.outcome.value
        IN  IF EndpointMissing(workspace)
            THEN {Step(ws.events, Raised(EndpointError(a.workspace_id)))}
            ELSE
            LET req == RouteQuery(rstrip(workspace.prometheus_endpoint), a)
                signed == get_signed_headers(creds, reg, "GET", req.endpoint, req.params)
            IN  IF signed.outcome.tag = "raise"
                THEN {Step(ws.events \o signed.events, signed.outcome)}
                ELSE
                LET headers == [signed.outcome.value EXCEPT !.ContentType = "application/json"]
                    evs == ws.events \o signed.events
                           \o Sent(req, headers, Bind(a.timeout, DefaultTimeout))
                IN  {Step(evs \o <<ResponseEvent(resp)>>, QueryOutcome(a, resp)) :
                        resp \in Responses}

\* get_label_values signs the endpoint without params and sends none
get_label_values(inv, creds, reg, a) ==
    LET ws == get_workspace(inv, a.workspace_id)
    IN  IF ws.outcome.tag = "raise" THEN {ws}
        ELSE
        LET workspace == ws.outcome.value
        IN  IF EndpointMissing(workspace)
            THEN {Step(ws.events, Raised(EndpointError(a.workspace_id)))}
            ELSE
            LET req == RouteLabelValues(rstrip(workspace.prometheus_endpoint), a)
                signed == get_signed_headers(creds, reg, "GET", req.endpoint, <<>>)
            IN  IF signed.outcome.tag = "raise"
                THEN {Step(ws.events \o signed.events, signed.outcome)}
                ELSE
                LET headers == [signed.outcome.value EXCEPT !.ContentType = "application/json"]
                    evs == ws.events \o signed.events
                           \o Sent(req, headers, Bind(a.timeout, DefaultTimeout))
                IN  {Step(evs \o <<ResponseEvent(resp)>>, ListOutcome(a, resp)) :
                        resp \in Responses}

get_series(inv, creds, reg, a) ==
    LET ws == get_workspace(inv, a.workspace_id)
    IN  IF ws.outcome.tag = "raise" THEN {ws}
        ELSE
        LET workspace == ws.outcome.value
        IN  IF EndpointMissing(workspace)
            THEN {Step(ws.events, Raised(EndpointError(a.workspace_id)))}
            ELSE
            LET req == RouteSeries(rstrip(workspace.prometheus_endpoint), a)
                signed == get_signed_headers(creds, reg, "GET", req.endpoint, req.params)
            IN  IF signed.outcome.tag = "raise"
                THEN {Step(ws.events \o signed.events, signed.outcome)}
                ELSE
                LET headers == [signed.outcome.value EXCEPT !.ContentType = "application/json"]
                    evs == ws.events \o signed.events
                           \o Sent(req, headers, Bind(a.timeout, DefaultTimeout))
                IN  {Step(evs \o <<ResponseEvent(resp)>>, ListOutcome(a, resp)) :
                        resp \in Responses}

\* main.py: PrometheusClient.query_metrics
\* query_metrics: a new AuthenticatedPrometheusClient(self.region) runs
\* execute_query without a timeout argument; every error is re-raised
query_metrics(inv, creds, reg, a) ==
    execute_query(inv, creds, reg,
                  [workspace_id |-> a.workspace_id, query |-> a.query,
                   start_time |-> a.start_time, end_time |-> a.end_time,
                   step |-> a.step, timeout |-> Omitted])

-----------------------------------------------------------------------------
(* Inputs *)

Queries == {<<"u", "p">>, <<"a", "{", "b", "=", "1", "}", " ", "+", " ", "c">>}
Times == {None, <<>>, <<"2", "0", "2", "3", ":", "0", "0">>}
Steps == {None, <<>>, <<"1", "m">>}
Timeouts == {Omitted, Given(5)}
Labels == {<<"j", "o", "b">>, <<"a", " ", "b">>}
Selectors == {<<"u", "p">>, <<"{", "a", "=", "b", "}">>}

RECURSIVE ListsUpTo(_, _)
ListsUpTo(S, n) ==
    IF n = 0 THEN {<<>>}
    ELSE LET shorter == ListsUpTo(S, n - 1)
         IN  shorter \cup {Append(l, x) : l \in shorter, x \in S}

Matches == ListsUpTo(Selectors, MaxMatch)

QueryArgs ==
    [workspace_id : WorkspaceIds, query : Queries, start_time : Times, end_time : Times,
     step : Steps, timeout : Timeouts]
LabelArgs == [workspace_id : WorkspaceIds, label_name : Labels, timeout : Timeouts]
SeriesArgs ==
    [workspace_id : WorkspaceIds, match : Matches, start_time : Times, end_time : Times,
     timeout : Timeouts]
MetricsArgs ==
    [workspace_id : WorkspaceIds, query : Queries, start_time : Times, end_time : Times,
     step : Steps]
NoArgs == [workspace_id |-> None]

-----------------------------------------------------------------------------
(* main.py: the module-level client and the tool functions *)

\* prometheus_client = PrometheusClient(): region and amp client of us-east-1
DefaultClient == [region |-> "us-east-1", aps_region |-> "us-east-1"]

\* boto3.client("amp", region_name=R) sees the workspaces of region R only:
\* ws-1 lives in us-east-1, ws-2 in us-west-2
HomeRegion(id) == IF id = Ws1 THEN "us-east-1" ELSE "us-west-2"
RegionalView(inv, reg) ==
    [id \in WorkspaceIds |-> IF HomeRegion(id) = reg THEN inv[id] ELSE NotFound]

\* choose_client rebinding the module-level client to the caller's region
choose_client_Rebind(default, reg) ==
    [client |-> [shared |-> TRUE],
     default |-> [region |-> reg, aps_region |-> reg]]

\* "if region != prometheus_client.region: client = PrometheusClient(region)
\* else: client = prometheus_client": a client of the caller's own or a
\* reference to the shared one; the module-level client is left as it is
choose_client(default, reg) ==
    IF reg # default.region
    THEN [client |-> [shared |-> FALSE, region |-> reg, aps_region |-> reg],
          default |-> default]
    ELSE [client |-> [shared |-> TRUE], default |-> default]

\* the object a method call on the chosen client works with
Deref(client, default) ==
    IF client.shared THEN default
    ELSE [region |-> client.region, aps_region |-> client.aps_region]

\* what a tool did: the client method's events and outcome, and what the tool
\* hands to the dispatch layer; json.dumps of a dict is the dict, key by key
ToolStep(step, result) ==
    [events |-> step.events, outcome |-> step.outcome, result |-> result]

\* ErrorJson letting the error through to the dispatch layer
ErrorJson_Reraised(prefix, out) == out

\* "except Exception as e: return json.dumps({"error": f"<prefix>{str(e)}"})"
ErrorJson(prefix, out) == Returned([error |-> prefix \o out.msg])

tool_list_workspaces(client, inv, a) ==
    {ToolStep(s, IF s.outcome.tag = "raise"
                 THEN ErrorJson(<<"Failed to list workspaces: ">>, s.outcome)
                 ELSE Returned([region |-> a.region,
                                count |-> Len(s.outcome.value),
                                workspaces |-> s.outcome.value])) :
        s \in list_workspaces(RegionalView(inv, client.aps_region))}

tool_get_workspace(client, inv, a) ==
    LET s == get_workspace(RegionalView(inv, client.aps_region), a.workspace_id)
    IN  {ToolStep(s, IF s.outcome.tag = "raise"
                     THEN ErrorJson(<<"Failed to get workspace ">> \o a.workspace_id
                                    \o <<": ">>, s.outcome)
                     ELSE Returned([workspace |-> s.outcome.value]))}

\* tool_query_metrics whose AuthenticatedPrometheusClient is built without a
\* region, so with the default us-east-1
tool_query_metrics_NoRegion(client, inv, creds, a) ==
    {[events |-> s.events, outcome |-> s.outcome,
      result |-> IF s.outcome.tag = "raise"
                 THEN Returned([error |-> <<"Failed to query metrics: ">> \o s.outcome.msg])
                 ELSE Returned(s.outcome.value)] :
        s \in query_metrics(RegionalView(inv, "us-east-1"), creds, "us-east-1", a)}

\* client.query_metrics builds its AuthenticatedPrometheusClient from self.region
tool_query_metrics(client, inv, creds, a) ==
    {ToolStep(s, IF s.outcome.tag = "raise"
                 THEN ErrorJson(<<"Failed to query metrics: ">>, s.outcome)
                 ELSE Returned(s.outcome.value)) :
        s \in query_metrics(RegionalView(inv, client.region), creds, client.region, a)}

tool_get_workspace_status(client, inv, a) ==
    LET s == get_workspace(RegionalView(inv, client.aps_region), a.workspace_id)
        workspace == s.outcome.value
    IN  {ToolStep(s, IF s.outcome.tag = "raise"
                     THEN ErrorJson(<<"Failed to get workspace status: ">>, s.outcome)
                     ELSE Returned([workspace_id |-> workspace.workspace_id,
                                    status |-> workspace.status,
                                    alias |-> workspace.alias,
                                    prometheus_endpoint |-> workspace.prometheus_endpoint,
                                    created_at |-> workspace.created_at,
                                    has_endpoint |-> workspace.prometheus_endpoint # None]))}

\* the body of the tool a caller invoked, run with the client it chose
ToolBody(tool, client, inv, creds, a) ==
    CASE tool = "list_workspaces" -> tool_list_workspaces(client, inv, a)
      [] tool = "get_workspace" -> tool_get_workspace(client, inv, a)
      [] tool = "query_metrics" -> tool_query_metrics(client, inv, creds, a)
      [] tool = "get_workspace_status" -> tool_get_workspace_status(client, inv, a)

\* the calls the dispatch layer can make; an omitted region is us-east-1
ToolCalls ==
    {[tool |-> "list_workspaces", args |-> a] : a \in [region : Regions]}
    \cup {[tool |-> t, args |-> a] :
             t \in {"get_workspace", "get_workspace_status"},
             a \in [workspace_id : WorkspaceIds, region : Regions]}
    \cup {[tool |-> "query_metrics", args |-> a] :
             a \in [workspace_id : WorkspaceIds, query : {<<"u", "p">>}, region : Regions,
                    start_time : {None}, end_time : {None}, step : {None}]}

Callers == 1..MaxCallers
IdleCall == [pc |-> "idle"]

-----------------------------------------------------------------------------
(* simple_server.py: PrometheusTestServer *)

IdleSuite == [pc |-> "idle"]

\* a failure of the inventory call that is no ClientError: the regional
\* endpoint cannot be reached
EndpointConnectionError ==
    [kind |-> "EndpointConnectionError",
     msg |-> <<"Could not connect to the endpoint URL">>]

\* "_get_error_suggestion": the suggestion for an error code, with a default
get_error_suggestion(error_code) ==
    CASE error_code = "UnauthorizedOperation" ->
            "Check AWS credentials and IAM permissions for AMP"
      [] error_code = "AccessDenied" ->
            "Ensure IAM user/role has aps:ListWorkspaces permission"
      [] error_code = "InvalidUserID.NotFound" ->
            "Check AWS credentials configuration"
      [] error_code = "NoCredentialsError" ->
            "Configure AWS credentials using 'aws configure' or environment variables"
      [] OTHER -> "Check AWS credentials and permissions"

\* "test_connection": one list call on the inventory client itself; the raw
\* records are counted, not normalized
test_connection(inv, reg) ==
    {Step(<<ListEvent, ResponseEvent([kind |-> "listed"])>>,
          [test |-> "connection", status |-> "success", region |-> reg,
           message |-> "Successfully connected to Amazon Managed Prometheus",
           workspace_count |-> Len(Listed(inv))]),
     Step(<<ListEvent, ResponseEvent([kind |-> "denied"])>>,
          [test |-> "connection", status |-> "error", region |-> reg,
           error_code |-> "AccessDeniedException",
           error_message |-> AccessDenied.msg,
           suggestion |-> get_error_suggestion("AccessDeniedException")]),
     Step(<<ListEvent, ResponseEvent([kind |-> "unreachable"])>>,
          [test |-> "connection", status |-> "error", region |-> reg,
           error |-> EndpointConnectionError.msg])}

\* "test_list_workspaces": the client's list_workspaces, its records dumped
\* and counted, or its error's message
test_list_workspaces(inv, reg) ==
    {Step(step.events,
          IF step.outcome.tag = "return"
          THEN [test |-> "list_workspaces", status |-> "success", region |-> reg,
                count |-> Len(step.outcome.value), workspaces |-> step.outcome.value]
          ELSE [test |-> "list_workspaces", status |-> "error",
                error |-> step.outcome.msg]) :
        step \in simple_list_workspaces(inv)}

\* "test_get_workspace": the client's get_workspace for the identifier
test_get_workspace(inv, workspace_id) ==
    LET step == simple_get_workspace(inv, workspace_id)
    IN  Step(step.events,
             IF step.outcome.tag = "return"
             THEN [test |-> "get_workspace", status |-> "success",
                   workspace_id |-> workspace_id, workspace |-> step.outcome.value]
             ELSE [test |-> "get_workspace", status |-> "error",
                   workspace_id |-> workspace_id, error |-> step.outcome.msg])

\* NextTest running the list test whatever the connection test said
NextTest_Ungated(tests) ==
    IF Len(tests) = 0 THEN "connection"
    ELSE IF Len(tests) = 1 THEN "list_workspaces"
    ELSE IF Len(tests) = 2
            /\ tests[2].status = "success" /\ tests[2].count > 0
         THEN "get_workspace"
    ELSE "return"

\* the gates of "run_all_tests": the test that runs after the recorded ones,
\* or "return" when none does
NextTest(tests) ==
    IF Len(tests) = 0 THEN "connection"
    ELSE IF Len(tests) = 1 /\ tests[1].status = "success" THEN "list_workspaces"
    ELSE IF Len(tests) = 2
            /\ tests[2].status = "success" /\ tests[2].count > 0
         THEN "get_workspace"
    ELSE "return"

\* "main": 0 when as many recorded tests succeeded as were recorded, else 1
ExitCode(tests) ==
    LET total_tests == Len(tests)
        successful_tests ==
            Cardinality({i \in DOMAIN tests : tests[i].status = "success"})
    IN  IF successful_tests = total_tests THEN 0 ELSE 1

-----------------------------------------------------------------------------
(* The state machine *)

Init ==
    /\ inventory \in [WorkspaceIds -> {NotFound}]
    /\ credentials \in BOOLEAN
    /\ region \in Regions
    /\ op = "idle"
    /\ args = NoArgs
    /\ events = <<>>
    /\ outcome = NoOutcome
    /\ default_client = DefaultClient
    /\ calls = [c \in Callers |-> IdleCall]
    /\ suite = IdleSuite

\* the method body has run: what it did and how it ended
Finish(name, a, step) ==
    /\ op' = name
    /\ args' = a
    /\ events' = step.events
    /\ outcome' = step.outcome
    /\ UNCHANGED <<inventory, credentials, region>>
    /\ UNCHANGED toolVars

GetWorkspace ==
    /\ op = "idle"
    /\ \E id \in WorkspaceIds :
          Finish("get_workspace", [workspace_id |-> id], get_workspace(inventory, id))

ExecuteQuery ==
    /\ op = "idle"
    /\ \E a \in QueryArgs :
          \E step \in execute_query(inventory, credentials, region, a) :
             Finish("execute_query", a, step)

GetLabelValues ==
    /\ op = "idle"
    /\ \E a \in LabelArgs :
          \E step \in get_label_values(inventory, credentials, region, a) :
             Finish("get_label_values", a, step)

GetSeries ==
    /\ op = "idle"
    /\ \E a \in SeriesArgs :
          \E step \in get_series(inventory, credentials, region, a) :
             Finish("get_series", a, step)

ListWorkspaces ==
    /\ op = "idle"
    /\ \E step \in list_workspaces(inventory) :
          Finish("list_workspaces", NoArgs, step)

QueryMetrics ==
    /\ op = "idle"
    /\ \E a \in MetricsArgs :
          \E step \in query_metrics(inventory, credentials, region, a) :
             Finish("query_metrics", a, step)

\* the caller has the result; the client keeps nothing of the invocation
Return ==
    /\ op # "idle"
    /\ op' = "idle"
    /\ args' = NoArgs
    /\ events' = <<>>
    /\ outcome' = NoOutcome
    /\ UNCHANGED <<inventory, credentials, region>>
    /\ UNCHANGED toolVars

\* the inventory changes between invocations: a workspace is created, is
\* provisioned, changes status or is deleted (a record is read once per
\* invocation, by describe_workspace, so a change during one is a change
\* before or after it)
InventoryChange ==
    /\ op = "idle"
    /\ \E id \in WorkspaceIds :
          \E raw \in RawRecords(id) \cup {NotFound} :
             inventory' = [inventory EXCEPT ![id] = raw]
    /\ UNCHANGED <<credentials, region, op, args, events, outcome>>
    /\ UNCHANGED toolVars

Next ==
    \/ GetWorkspace
    \/ ExecuteQuery
    \/ GetLabelValues
    \/ GetSeries
    \/ ListWorkspaces
    \/ QueryMetrics
    \/ Return
    \/ InventoryChange

Spec == Init /\ [][Next]_vars

\* The normalization over every shape of raw record: the inventory holds a
\* record of any shape for ws-1, and for ws-2 a plain record or none.
InitShapes ==
    /\ inventory \in
          {[id \in WorkspaceIds |-> IF id = Ws1 THEN r1 ELSE r2] :
              r1 \in ShapedRecords(Ws1),
              r2 \in {NotFound, RawRecord(Ws2, StatusStr(Active), EndpointBase(Ws2))}}
    /\ credentials = TRUE
    /\ region \in Regions
    /\ op = "idle"
    /\ args = NoArgs
    /\ events = <<>>
    /\ outcome = NoOutcome
    /\ default_client = DefaultClient
    /\ calls = [c \in Callers |-> IdleCall]
    /\ suite = IdleSuite

NextShapes ==
    \/ GetWorkspace
    \/ ListWorkspaces
    \/ Return

SpecShapes == InitShapes /\ [][NextShapes]_vars

-----------------------------------------------------------------------------
(* The tool functions, any number of them in flight *)

\* a caller enters a tool: the try block picks the client
ToolCall(c) ==
    /\ calls[c].pc = "idle"
    /\ \E call \in ToolCalls :
          LET chosen == choose_client(default_client, call.args.region)
          IN  /\ calls' = [calls EXCEPT ![c] =
                              [pc |-> "chosen", tool |-> call.tool, args |-> call.args,
                               client |-> chosen.client]]
              /\ default_client' = chosen.default
    /\ UNCHANGED <<inventory, credentials, region, op, args, events, outcome, suite>>

\* the client method runs on the chosen client and the tool builds its answer
ToolRun(c) ==
    /\ calls[c].pc = "chosen"
    /\ LET used == Deref(calls[c].client, default_client)
       IN  \E step \in ToolBody(calls[c].tool, used, inventory, credentials, calls[c].args) :
              calls' = [calls EXCEPT ![c] =
                          [pc |-> "done", tool |-> calls[c].tool, args |-> calls[c].args,
                           used |-> used, events |-> step.events,
                           outcome |-> step.outcome, result |-> step.result]]
    /\ UNCHANGED <<inventory, credentials, region, op, args, events, outcome,
                   default_client, suite>>

\* the dispatch layer has the tool's answer
ToolReturn(c) ==
    /\ calls[c].pc = "done"
    /\ calls' = [calls EXCEPT ![c] = IdleCall]
    /\ UNCHANGED <<inventory, credentials, region, op, args, events, outcome,
                   default_client, suite>>

InitTools ==
    /\ inventory \in
          {[id \in WorkspaceIds |-> IF id = Ws1 THEN r1 ELSE r2] :
              r1 \in RawRecords(Ws1) \cup {NotFound},
              r2 \in RawRecords(Ws2) \cup {NotFound}}
    /\ credentials \in BOOLEAN
    /\ region = DefaultClient.region
    /\ op = "idle"
    /\ args = NoArgs
    /\ events = <<>>
    /\ outcome = NoOutcome
    /\ default_client = DefaultClient
    /\ calls = [c \in Callers |-> IdleCall]
    /\ suite = IdleSuite

NextTools ==
    \E c \in Callers :
        \/ ToolCall(c)
        \/ ToolRun(c)
        \/ ToolReturn(c)

SpecTools == InitTools /\ [][NextTools]_vars

-----------------------------------------------------------------------------
(* simple_server's test suite: run_all_tests test by test, then main's exit  *)
(* code. The inventory is the one of the suite's region and may change       *)
(* between two tests.                                                        *)

SuiteUnchanged ==
    UNCHANGED <<inventory, credentials, region, op, args, events, outcome,
                default_client, calls>>

\* main constructs the server and run_all_tests runs the connection test
SuiteConnection ==
    /\ suite.pc = "idle"
    /\ NextTest(<<>>) = "connection"
    /\ \E step \in test_connection(inventory, region) :
          suite' = [pc |-> "running", tests |-> <<step.outcome>>,
                    events |-> step.events]
    /\ SuiteUnchanged

SuiteList ==
    /\ suite.pc = "running"
    /\ NextTest(suite.tests) = "list_workspaces"
    /\ \E step \in test_list_workspaces(inventory, region) :
          suite' = [suite EXCEPT !.tests = Append(@, step.outcome),
                                 !.events = @ \o step.events]
    /\ SuiteUnchanged

SuiteGet ==
    /\ suite.pc = "running"
    /\ NextTest(suite.tests) = "get_workspace"
    /\ LET workspace_id == suite.tests[2].workspaces[1].workspace_id
            step == test_get_workspace(inventory, workspace_id)
       IN  suite' = [suite EXCEPT !.tests = Append(@, step.outcome),
                                  !.events = @ \o step.events]
    /\ SuiteUnchanged

\* run_all_tests returns its results and main turns them into the exit code
SuiteMain ==
    /\ suite.pc = "running"
    /\ NextTest(suite.tests) = "return"
    /\ suite' = [pc |-> "exited", tests |-> suite.tests, events |-> suite.events,
                 code |-> ExitCode(suite.tests)]
    /\ SuiteUnchanged

InitSuite ==
    /\ inventory \in
          {[id \in WorkspaceIds |-> IF id = Ws1 THEN r1 ELSE r2] :
              r1 \in RawRecords(Ws1) \cup {NotFound}
                       \cup {r \in ShapedRecords(Ws1) :
                                /\ r.alias = Absent /\ r.tags = Absent
                                /\ r.arn # Absent /\ r.createdAt = NativeTime
                                /\ r.prometheusEndpoint = Absent},
              r2 \in RawRecords(Ws2) \cup {NotFound}}
    /\ credentials = TRUE
    /\ region \in Regions
    /\ op = "idle"
    /\ args = NoArgs
    /\ events = <<>>
    /\ outcome = NoOutcome
    /\ default_client = DefaultClient
    /\ calls = [c \in Callers |-> IdleCall]
    /\ suite = IdleSuite

NextSuite ==
    \/ SuiteConnection
    \/ SuiteList
    \/ SuiteGet
    \/ SuiteMain
    \/ InventoryChange

SpecSuite == InitSuite /\ [][NextSuite]_vars

-----------------------------------------------------------------------------
(* Vocabulary of the properties *)

QueryOps == {"execute_query", "get_label_values", "get_series"}

EventsOf(kind) == SelectSeq(events, LAMBDA e : e.ev = kind)
Gets == EventsOf("get")
Signs == EventsOf("sign")
Describes == EventsOf("describe")
Answers == EventsOf("response")

\* the caller gave a value for an optional string argument
Supplied(x) == x # None /\ x # <<>>

HasSuffix(s, suffix) ==
    /\ Len(s) >= Len(suffix)
    /\ SubSeq(s, Len(s) - Len(suffix) + 1, Len(s)) = suffix

HasPrefix(s, prefix) ==
    /\ Len(s) >= Len(prefix)
    /\ SubSeq(s, 1, Len(prefix)) = prefix

\* url is some leading part of the workspace's endpoint followed by path
GoesTo(url, path) ==
    /\ HasSuffix(url, path)
    /\ inventory[args.workspace_id] # NotFound
    /\ HasPrefix(inventory[args.workspace_id].prometheusEndpoint,
                 SubSeq(url, 1, Len(url) - Len(path)))

ParamKeys(params) == [i \in 1..Len(params) |-> params[i].k]
ParamValues(params) == [i \in 1..Len(params) |-> params[i].v]

ApiQuery == <<"/", "a", "p", "i", "/", "v", "1", "/", "q", "u", "e", "r", "y">>
ApiQueryRange ==
    <<"/", "a", "p", "i", "/", "v", "1", "/", "q", "u", "e", "r", "y", "_",
      "r", "a", "n", "g", "e">>
ApiSeries == <<"/", "a", "p", "i", "/", "v", "1", "/", "s", "e", "r", "i", "e", "s">>

-----------------------------------------------------------------------------
(* C1 *)

\* C1: in every query operation the query string of the URL handed to the
\* signer equals the query string of the GET that is then sent, for
\* get_series with one selector and with several as for the other operations.
C1_SignedQueryIsSentQuery ==
    op \in QueryOps =>
        \A i, j \in DOMAIN events :
            (events[i].ev = "sign" /\ events[j].ev = "get") =>
                QueryString(events[i].url) = QueryString(events[j].url)

-----------------------------------------------------------------------------
(* C2 *)

\* C2: an execute_query call with exactly one of start_time and end_time
\* supplied is rejected before any network call: it raises, nothing is
\* signed, no GET is sent and no QueryResult is returned.
C2_OneSidedRangeRejected ==
    (op = "execute_query" /\ Supplied(args.start_time) # Supplied(args.end_time)) =>
        /\ outcome.tag = "raise"
        /\ Signs = <<>>
        /\ Gets = <<>>

-----------------------------------------------------------------------------
(* C3 *)

\* C3: execute_query with both start_time and end_time sends its one request
\* to {base_url}/api/v1/query_range with exactly the params query, start, end,
\* step; with neither it sends it to {base_url}/api/v1/query with exactly the
\* param query; no invocation sends to both paths or to any other path.
C3_RouterSelection ==
    op = "execute_query" =>
        /\ Len(Gets) <= 1
        /\ \A i \in DOMAIN Gets :
              LET get == Gets[i]
                  both == Supplied(args.start_time) /\ Supplied(args.end_time)
                  neither == ~Supplied(args.start_time) /\ ~Supplied(args.end_time)
              IN  /\ GoesTo(get.endpoint, ApiQuery) \/ GoesTo(get.endpoint, ApiQueryRange)
                  /\ HasPrefix(get.url, get.endpoint \o <<"?">>)
                  /\ both =>
                        /\ GoesTo(get.endpoint, ApiQueryRange)
                        /\ ParamKeys(get.params) = <<KeyQuery, KeyStart, KeyEnd, KeyStep>>
                        /\ get.params[1].v = args.query
                        /\ get.params[2].v = args.start_time
                        /\ get.params[3].v = args.end_time
                  /\ neither =>
                        /\ GoesTo(get.endpoint, ApiQuery)
                        /\ ParamKeys(get.params) = <<KeyQuery>>
                        /\ get.params[1].v = args.query

\* execute_query has sent a range query
C3_Witness ==
    /\ op = "execute_query"
    /\ Supplied(args.start_time) /\ Supplied(args.end_time)
    /\ Len(Gets) = 1
    /\ GoesTo(Gets[1].endpoint, ApiQueryRange)

-----------------------------------------------------------------------------
(* C4 *)

FifteenSeconds == <<"1", "5", "s">>

\* C4: in a range-shaped execute_query the step sent upstream is the literal
\* 15s when the caller omits step, and the caller's step unchanged when the
\* caller supplies one.
C4_StepDefault ==
    (op = "execute_query" /\ Supplied(args.start_time) /\ Supplied(args.end_time)) =>
        \A i \in DOMAIN Gets :
            LET sent == IF Supplied(args.step) THEN args.step ELSE FifteenSeconds
            IN  /\ Len(Gets[i].params) = 4
                /\ Gets[i].params[4] = [k |-> KeyStep, list |-> FALSE, v |-> sent]
                /\ HasSuffix(Gets[i].url, <<"&">> \o KeyStep \o <<"=">> \o sent)

\* a range query without a step has been sent
C4_Witness ==
    /\ op = "execute_query"
    /\ Supplied(args.start_time) /\ Supplied(args.end_time)
    /\ args.step = None
    /\ Len(Gets) = 1

-----------------------------------------------------------------------------
(* C5 *)

EndpointMessage(msg) ==
    /\ Len(msg) >= 2
    /\ msg[1] = "Workspace "
    /\ msg[Len(msg)] = " does not have a Prometheus endpoint"

TransportKinds == {"Timeout", "ConnectionError", "HTTPError", "JSONDecodeError"}

UnprovisionedError == outcome.tag = "raise" /\ outcome.kind = "ValueError" /\ EndpointMessage(outcome.msg)

\* C5: when the workspace exists but its record has no query endpoint, each
\* query operation fails with the unprovisioned-endpoint error before any
\* signing call or GET; and that error is raised in no other case, so it is
\* told apart from not-found and from a transport failure.
C5_UnprovisionedBeforeNetwork ==
    op \in QueryOps =>
        LET raw == inventory[args.workspace_id]
        IN  /\ (raw # NotFound /\ raw.prometheusEndpoint = Absent) =>
                  /\ UnprovisionedError
                  /\ Signs = <<>> /\ Gets = <<>>
            /\ UnprovisionedError =>
                  /\ raw # NotFound
                  /\ ~Supplied(Get(raw.prometheusEndpoint, None))
                  /\ Signs = <<>> /\ Gets = <<>>
            /\ (outcome.tag = "raise" /\ (raw = NotFound \/ Gets # <<>>)) =>
                  ~UnprovisionedError

\* get_series has met a workspace whose record has no endpoint
C5_Witness ==
    /\ op = "get_series"
    /\ inventory[args.workspace_id] # NotFound
    /\ inventory[args.workspace_id].prometheusEndpoint = Absent
    /\ UnprovisionedError

-----------------------------------------------------------------------------
(* C6 *)

\* C6: when the inventory reports not-found for the identifier, get_workspace
\* raises that same error, and neither get_workspace nor any query operation
\* makes a signing call or sends a GET in that invocation.
C6_NotFoundSurfaced ==
    (op \in QueryOps \cup {"get_workspace"} /\ inventory[args.workspace_id] = NotFound) =>
        /\ outcome = Raised(NotFoundError(args.workspace_id))
        /\ Signs = <<>>
        /\ Gets = <<>>

\* get_workspace has been called for an identifier the inventory does not know
C6_Witness ==
    /\ op = "get_workspace"
    /\ inventory[args.workspace_id] = NotFound
    /\ outcome.tag = "raise"

-----------------------------------------------------------------------------
(* C7 *)

SubApi(get) ==
    CASE op = "execute_query" ->
            GoesTo(get.endpoint, ApiQuery) # GoesTo(get.endpoint, ApiQueryRange)
      [] op = "get_series" -> GoesTo(get.endpoint, ApiSeries)
      [] op = "get_label_values" ->
            HasSuffix(get.endpoint, <<"/", "v", "a", "l", "u", "e", "s">>)

FailedAnswer(resp) ==
    \/ resp.kind \in {"timeout", "connection"}
    \/ resp.kind = "http" /\ (resp.code < 200 \/ resp.code > 299)
    \/ resp.kind = "http" /\ resp.body.t = "object" /\ resp.body.status = Error

\* C7: every invocation of a query operation sends at most one GET, to one
\* sub-API path of that operation, and exactly one when the workspace lookup,
\* the endpoint check and the signing succeed; the GET's answer, failed or
\* not, is the last thing the invocation does.
C7_OneGetPerInvocation ==
    op \in QueryOps =>
        LET raw == inventory[args.workspace_id]
            reaches == /\ raw # NotFound
                       /\ Supplied(Get(raw.prometheusEndpoint, None))
                       /\ credentials
        IN  /\ Len(Gets) <= 1
            /\ reaches => Len(Gets) = 1
            /\ \A i \in DOMAIN Gets : SubApi(Gets[i])
            /\ Len(Answers) = Len(Gets)
            /\ \A i \in DOMAIN events :
                  events[i].ev = "get" =>
                      /\ i + 1 = Len(events)
                      /\ events[i + 1].ev = "response"

\* a GET has failed and the invocation has ended
C7_Witness ==
    /\ op \in QueryOps
    /\ Len(Gets) = 1
    /\ FailedAnswer(Answers[1].resp)
    /\ outcome.tag = "raise"

-----------------------------------------------------------------------------
(* C8 *)

\* the invocation got a 2xx answer whose body is a JSON object
GotEnvelope ==
    /\ Answers # <<>>
    /\ Answers[1].resp.kind = "http"
    /\ Answers[1].resp.code >= 200 /\ Answers[1].resp.code <= 299
    /\ Answers[1].resp.body.t = "object"

OrNull(field) == IF field = Absent THEN None ELSE field

\* C8: for every 2xx JSON envelope execute_query returns a QueryResult with
\* exactly the fields workspace_id, query, status, data, error, warnings;
\* the first two are the caller's arguments, the other four the envelope's
\* fields unmodified, null when the envelope lacks them; an envelope with
\* status "error" is returned this way too.
C8_QueryResultPassThrough ==
    (op = "execute_query" /\ GotEnvelope) =>
        LET body == Answers[1].resp.body
        IN  /\ outcome.tag = "return"
            /\ DOMAIN outcome.value =
                  {"workspace_id", "query", "status", "data", "error", "warnings"}
            /\ outcome.value.workspace_id = args.workspace_id
            /\ outcome.value.query = args.query
            /\ outcome.value.status = OrNull(body.status)
            /\ outcome.value.data = OrNull(body.data)
            /\ outcome.value.error = OrNull(body.error)
            /\ outcome.value.warnings = OrNull(body.warnings)

\* execute_query has returned an error envelope that has no data
C8_Witness ==
    /\ op = "execute_query"
    /\ GotEnvelope
    /\ Answers[1].resp.body.status = Error
    /\ Answers[1].resp.body.data = Absent
    /\ outcome.tag = "return"

-----------------------------------------------------------------------------
(* C9 *)

\* C9: for get_label_values and get_series and every 2xx JSON envelope: with
\* status "success" the operation returns the envelope's data unchanged;
\* with any other status it raises a query-failure error whose message
\* carries the envelope's error string, and returns nothing.
C9_ListResult ==
    (op \in {"get_label_values", "get_series"} /\ GotEnvelope) =>
        LET body == Answers[1].resp.body
        IN  IF body.status = Success
            THEN /\ outcome.tag = "return"
                 /\ body.data # Absent => outcome.value = body.data
            ELSE /\ outcome.tag = "raise"
                 /\ outcome.kind = "ValueError"
                 /\ outcome.msg[1] = "Query failed: "
                 /\ body.error # Absent => outcome.msg = <<"Query failed: ">> \o body.error

\* a list operation got an envelope that is no success and carries data
C9_Witness ==
    /\ op \in {"get_label_values", "get_series"}
    /\ GotEnvelope
    /\ Answers[1].resp.body.status = Error
    /\ Answers[1].resp.body.data = <<"vector">>
    /\ Answers[1].resp.body.error = <<"bad_data">>
    /\ outcome.tag = "raise"

-----------------------------------------------------------------------------
(* C10 *)

TransportFailure == outcome.tag = "raise" /\ outcome.kind \in TransportKinds

QueryFailure ==
    IF op = "execute_query"
    THEN outcome.tag = "return" /\ outcome.value.status = Error
    ELSE outcome.tag = "raise" /\ outcome.kind = "ValueError"
         /\ outcome.msg[1] = "Query failed: "

\* C10: in every query operation a non-2xx HTTP status or a non-JSON body
\* yields a transport failure, a well-formed envelope with status "error"
\* yields a query failure, and no outcome is both.
C10_TransportOrQueryFailure ==
    (op \in QueryOps /\ Answers # <<>> /\ Answers[1].resp.kind = "http") =>
        LET resp == Answers[1].resp
            ok == resp.code >= 200 /\ resp.code <= 299
        IN  /\ (~ok \/ resp.body.t = "text") => TransportFailure
            /\ (ok /\ resp.body.t = "object" /\ resp.body.status = Error) => QueryFailure
            /\ ~(TransportFailure /\ QueryFailure)

-----------------------------------------------------------------------------
(* C11 to C14: the normalization of raw workspace records *)

\* the raw records an invocation has normalized, each with the record returned
\* for it: one for get_workspace, one per list element for list_workspaces
Normalized ==
    IF outcome.tag # "return" THEN {}
    ELSE IF op = "get_workspace"
         THEN {<<inventory[args.workspace_id], outcome.value>>}
    ELSE IF op = "list_workspaces"
         THEN {<<inventory[outcome.value[i].workspace_id], outcome.value[i]>> :
                  i \in DOMAIN outcome.value}
    ELSE {}

UnknownLiteral == <<"U", "N", "K", "N", "O", "W", "N">>

\* C11: in get_workspace and in list_workspaces a raw status that is a plain
\* string S gives status S, a compound status with statusCode S gives S, and a
\* compound status without statusCode gives the literal UNKNOWN.
C11_StatusNormalized ==
    \A p \in Normalized :
        LET status == p[1].status
        IN  /\ status.t = "str" => p[2].status = status.v
            /\ (status.t = "dict" /\ status.statusCode # Absent) =>
                   p[2].status = status.statusCode
            /\ (status.t = "dict" /\ status.statusCode = Absent) =>
                   p[2].status = UnknownLiteral

\* list_workspaces has normalized a compound status that has no statusCode
C11_Witness ==
    /\ op = "list_workspaces"
    /\ \E p \in Normalized :
          /\ p[1].status.t = "dict"
          /\ p[1].status.statusCode = Absent
          /\ p[2].status = UnknownLiteral

\* the record has an identifier and an ARN and a status of either representation
Normalizable(raw) ==
    /\ raw.workspaceId # Absent
    /\ raw.arn # Absent
    /\ raw.status.t \in {"str", "dict"}

InfoFields ==
    {"workspace_id", "alias", "arn", "status", "prometheus_endpoint", "created_at", "tags"}

\* C12: for every raw record with an identifier and an ARN whose status is a
\* plain string or a compound object, with a statusCode of any value or with
\* none, get_workspace and list_workspaces (once the inventory has answered
\* with its records) return a WorkspaceInfo (one per record) and do not fail.
C12_NormalizationTotal ==
    /\ (op = "get_workspace" /\ inventory[args.workspace_id] # NotFound
          /\ Normalizable(inventory[args.workspace_id])) =>
            /\ outcome.tag = "return"
            /\ DOMAIN outcome.value = InfoFields
            /\ outcome.value.workspace_id = args.workspace_id
    /\ (op = "list_workspaces" /\ outcome # Raised(AccessDenied)
          /\ \A id \in WorkspaceIds : inventory[id] # NotFound => Normalizable(inventory[id])) =>
            /\ outcome.tag = "return"
            /\ Len(outcome.value) = Cardinality({id \in WorkspaceIds : inventory[id] # NotFound})
            /\ \A i \in DOMAIN outcome.value : DOMAIN outcome.value[i] = InfoFields

\* get_workspace has returned a record whose compound status carries a code
\* outside the service's enumeration
C12_Witness ==
    /\ op = "get_workspace"
    /\ inventory[args.workspace_id] # NotFound
    /\ inventory[args.workspace_id].status = StatusDict(Retired)
    /\ outcome.tag = "return"

\* C13: a raw record without tags gives a record whose tags is the empty
\* mapping, present and not null; a raw record with tags gives a record whose
\* tags equal the raw tags.
C13_TagsDefault ==
    \A p \in Normalized :
        /\ "tags" \in DOMAIN p[2]
        /\ p[2].tags # None
        /\ p[1].tags = Absent => p[2].tags = <<>>
        /\ p[1].tags # Absent => p[2].tags = p[1].tags

\* get_workspace has returned the record of a workspace that has no tags
C13_Witness ==
    /\ op = "get_workspace"
    /\ \E p \in Normalized : p[1].tags = Absent /\ p[2].tags = <<>>

\* text that begins with a four-digit year
TimestampText(s) ==
    /\ s # None
    /\ Len(s) >= 4
    /\ \A i \in 1..4 : s[i] \in Digits

\* C14: the created_at of a normalized record is always text that parses as a
\* timestamp: the isoformat text of a native timestamp, a string unchanged,
\* and so for every raw creation time, the missing one included.
C14_CreatedAtIsTimestamp ==
    \A p \in Normalized :
        /\ TimestampText(p[2].created_at)
        /\ p[1].createdAt.t = "datetime" => p[2].created_at = p[1].createdAt.isoformat
        /\ p[1].createdAt.t = "str" => p[2].created_at = p[1].createdAt.v

-----------------------------------------------------------------------------
(* C15 *)

ApiRoot == <<"/", "a", "p", "i", "/", "v", "1", "/">>

\* the part of a request URL before its first /api/v1/
RECURSIVE BeforeApi(_)
BeforeApi(url) ==
    IF url = <<>> \/ HasPrefix(url, ApiRoot) THEN <<>>
    ELSE <<Head(url)>> \o BeforeApi(Tail(url))

EndsWithSeparator(s) == s # <<>> /\ s[Len(s)] = "/"

StripOne(s) == IF EndsWithSeparator(s) THEN SubSeq(s, 1, Len(s) - 1) ELSE s

\* base is endpoint without the run of separators it ends with
StripsAll(endpoint, base) ==
    /\ HasPrefix(endpoint, base)
    /\ ~EndsWithSeparator(base)
    /\ \A i \in Len(base) + 1 .. Len(endpoint) : endpoint[i] = "/"

\* C15 as stated: the base URL of every request is the workspace's endpoint
\* with a single trailing separator stripped, unchanged when it has none, and
\* the request URL has no doubled separator where the base URL meets /api/v1/.
C15_SingleSeparatorStripped ==
    op \in QueryOps =>
        \A i \in DOMAIN Gets :
            LET base == BeforeApi(Gets[i].endpoint)
            IN  /\ base = StripOne(inventory[args.workspace_id].prometheusEndpoint)
                /\ ~EndsWithSeparator(base)

\* C15, amended: the base URL of every request is the workspace's endpoint
\* with all its trailing separators stripped, unchanged when it has none, and
\* the request URL has no doubled separator where the base URL meets /api/v1/.
C15_TrailingSeparatorsStripped ==
    op \in QueryOps =>
        \A i \in DOMAIN Gets :
            LET base == BeforeApi(Gets[i].endpoint)
                endpoint == inventory[args.workspace_id].prometheusEndpoint
            IN  /\ StripsAll(endpoint, base)
                /\ ~EndsWithSeparator(endpoint) => base = endpoint
                /\ HasPrefix(Gets[i].endpoint, base \o ApiRoot)
                /\ HasPrefix(Gets[i].url, base \o ApiRoot)

\* a request has gone to a workspace whose endpoint ends with two separators
C15_Witness ==
    /\ op \in QueryOps
    /\ Len(Gets) = 1
    /\ HasSuffix(inventory[args.workspace_id].prometheusEndpoint, <<"/", "/">>)
    /\ BeforeApi(Gets[1].endpoint) = EndpointBase(args.workspace_id)

-----------------------------------------------------------------------------
(* C16 *)

\* the pieces of s between the occurrences of the character sep
RECURSIVE SplitOn(_, _, _)
SplitOn(s, sep, piece) ==
    IF s = <<>> THEN <<piece>>
    ELSE IF Head(s) = sep THEN <<piece>> \o SplitOn(Tail(s), sep, <<>>)
    ELSE SplitOn(Tail(s), sep, Append(piece, Head(s)))

\* the key=value pairs of the query string a URL carries on the wire
WirePairs(url) ==
    IF QueryString(url) = <<>> THEN <<>> ELSE SplitOn(QueryString(url), "&", <<>>)

MatchKeyOnWire == <<"m", "a", "t", "c", "h", "%", "5", "B", "%", "5", "D">>

\* C16: get_series with selector list M sends its one GET to
\* {base_url}/api/v1/series carrying one match[] parameter per element of M,
\* in M's order, then start exactly when start_time is supplied and end
\* exactly when end_time is supplied, each on its own, and nothing else.
C16_SeriesParams ==
    op = "get_series" =>
        /\ Len(Gets) <= 1
        /\ \A i \in DOMAIN Gets :
              LET get == Gets[i]
                  expected ==
                      [j \in 1..Len(args.match) |->
                          MatchKeyOnWire \o <<"=">> \o quote_plus(args.match[j])]
                      \o (IF Supplied(args.start_time)
                          THEN <<KeyStart \o <<"=">> \o quote_plus(args.start_time)>>
                          ELSE <<>>)
                      \o (IF Supplied(args.end_time)
                          THEN <<KeyEnd \o <<"=">> \o quote_plus(args.end_time)>>
                          ELSE <<>>)
              IN  /\ GoesTo(get.endpoint, ApiSeries)
                  /\ HasPrefix(get.url, get.endpoint)
                  /\ WirePairs(get.url) = expected
                  /\ get.params[1].v = args.match

\* get_series has sent two selectors and an end without a start
C16_Witness ==
    /\ op = "get_series"
    /\ Len(args.match) = 2
    /\ args.match[1] # args.match[2]
    /\ ~Supplied(args.start_time) /\ Supplied(args.end_time)
    /\ Len(Gets) = 1
    /\ Len(WirePairs(Gets[1].url)) = 3

-----------------------------------------------------------------------------
(* C17 *)

LabelPrefix == <<"/", "a", "p", "i", "/", "v", "1", "/", "l", "a", "b", "e", "l", "/">>
LabelSuffix == <<"/", "v", "a", "l", "u", "e", "s">>

\* C17: get_label_values for label L sends its one GET to
\* {base_url}/api/v1/label/{L}/values without query parameters, L changed in
\* the path by nothing but URL-encoding, and the URL that was signed is that
\* same URL.
C17_LabelUrlSignedAsSent ==
    op = "get_label_values" =>
        /\ Len(Gets) <= 1
        /\ \A i \in DOMAIN Gets :
              LET get == Gets[i]
              IN  /\ get.params = <<>>
                  /\ QueryString(get.url) = <<>>
                  /\ get.url = BeforeApi(get.endpoint) \o LabelPrefix
                                \o quote(args.label_name, {}) \o LabelSuffix
                  /\ HasPrefix(inventory[args.workspace_id].prometheusEndpoint,
                               BeforeApi(get.endpoint))
                  /\ \A j \in DOMAIN Signs : Signs[j].url = get.url

-----------------------------------------------------------------------------
(* C18 *)

\* C18: without a resolvable credential the signing call fails with the
\* configuration error "AWS credentials not found"; every query operation
\* that reaches signing ends with that error, sends no GET and does not sign
\* a second time.
C18_NoCredentialsNoGet ==
    (op \in QueryOps /\ ~credentials) =>
        LET raw == inventory[args.workspace_id]
            reaches == raw # NotFound /\ Supplied(Get(raw.prometheusEndpoint, None))
        IN  /\ reaches <=> Signs # <<>>
            /\ Signs # <<>> =>
                  /\ outcome.tag = "raise"
                  /\ outcome.kind = "ValueError"
                  /\ outcome.msg = <<"AWS credentials not found">>
                  /\ Len(Signs) = 1
                  /\ events[Len(events)].ev = "sign"
            /\ Gets = <<>>

\* get_label_values has reached signing without credentials
C18_Witness ==
    /\ op = "get_label_values"
    /\ ~credentials
    /\ Len(Signs) = 1
    /\ outcome.tag = "raise"
    /\ outcome.kind = "ValueError"

-----------------------------------------------------------------------------
(* C19 *)

\* C19: every GET carries the authorization headers the signer computed in
\* that invocation for service "aps" and the client's region, together with
\* Content-Type: application/json; no GET goes out without them.
C19_GetCarriesSignedHeaders ==
    \A i \in DOMAIN events :
        events[i].ev = "get" =>
            /\ DOMAIN events[i].headers = {"Authorization", "ContentType"}
            /\ events[i].headers.ContentType = "application/json"
            /\ events[i].headers.Authorization.service = "aps"
            /\ events[i].headers.Authorization.region = region
            /\ \E j \in 1..(i - 1) :
                  /\ events[j].ev = "sign"
                  /\ events[j].region = region
                  /\ events[i].headers.Authorization.method = events[j].method
                  /\ events[i].headers.Authorization.url = events[j].url

\* a GET has gone out for a client of the region us-west-2
C19_Witness ==
    /\ op \in QueryOps
    /\ region = "us-west-2"
    /\ Len(Gets) = 1
    /\ Gets[1].headers.Authorization.region = "us-west-2"

-----------------------------------------------------------------------------
(* C20 *)

\* C20: in any sequence of query operations a step that sends a GET starts
\* from a client that holds nothing of an earlier invocation, and the GET is
\* preceded, within that invocation, by exactly one signing call, made for
\* method GET and the request's endpoint, whose headers are the ones sent.
C20_SignatureAlwaysFresh ==
    [][\A j \in DOMAIN events' :
          events'[j].ev = "get" =>
              /\ op = "idle" /\ events = <<>> /\ outcome = NoOutcome
              /\ Len(SelectSeq(events', LAMBDA e : e.ev = "sign")) = 1
              /\ \E i \in 1..(j - 1) :
                    /\ events'[i].ev = "sign"
                    /\ events'[i].method = "GET"
                    /\ HasPrefix(events'[i].url, events'[j].endpoint)
                    /\ events'[j].headers.Authorization.method = "GET"
                    /\ events'[j].headers.Authorization.url = events'[i].url]_vars

\* get_series has signed and then sent its request
C20_Witness ==
    /\ op = "get_series"
    /\ Len(Signs) = 1
    /\ Len(Gets) = 1
    /\ \E i, j \in DOMAIN events :
          i < j /\ events[i].ev = "sign" /\ events[j].ev = "get"

-----------------------------------------------------------------------------
(* Vocabulary of the tool properties *)

\* the frames of the tool invocations that have run
Done == {c \in Callers : calls[c].pc = "done"}

\* a client that belongs to one invocation with region argument reg
ClientFor(reg) == [region |-> reg, aps_region |-> reg]

\* what the invocation of frame f can do when it runs alone, against the
\* same inventory and credentials
Alone(f) == ToolBody(f.tool, ClientFor(f.args.region), inventory, credentials, f.args)

-----------------------------------------------------------------------------
(* C21 *)

\* C21: under any interleaving of concurrent tool invocations the
\* module-level client (region, inventory client) and the credential stay as
\* initialized, a step of one invocation leaves every other invocation's
\* frame alone, and what each invocation did and returned is what it does
\* when it runs alone against the same collaborator answers.
C21_NoSharedMutableState ==
    /\ [](/\ default_client = DefaultClient
          /\ \A c \in Done :
                [events |-> calls[c].events, outcome |-> calls[c].outcome,
                 result |-> calls[c].result] \in Alone(calls[c]))
    /\ [][/\ default_client' = default_client
          /\ credentials' = credentials
          /\ \A c, d \in Callers :
                (c # d /\ calls'[c] # calls[c]) => calls'[d] = calls[d]]_vars

\* two invocations for different regions are in flight: one has chosen the
\* shared client and not yet used it, the other has run with a client of its own
C21_Witness ==
    \E c, d \in Callers :
        /\ calls[c].pc = "chosen"
        /\ calls[c].client.shared
        /\ calls[d].pc = "done"
        /\ calls[d].tool = "query_metrics"
        /\ calls[d].args.region = "us-west-2"
        /\ calls[d].outcome.tag = "return"

-----------------------------------------------------------------------------
(* C22 *)

ClientMethods ==
    {"list_workspaces", "get_workspace", "query_metrics", "execute_query",
     "get_label_values", "get_series"}

\* the error a collaborator raised in this invocation, or NoOutcome when none
\* did: the inventory (not found, list refused), the signer (no credentials),
\* the transport (timeout, connection, 4xx/5xx) or the response handling
\* (a body that is no JSON document, a JSON document that is no object)
CollaboratorError ==
    IF op = "list_workspaces"
    THEN (IF Answers[1].resp.kind = "denied" THEN Raised(AccessDenied) ELSE NoOutcome)
    ELSE IF inventory[args.workspace_id] = NotFound
         THEN Raised(NotFoundError(args.workspace_id))
    ELSE IF Signs # <<>> /\ ~credentials THEN Raised(CredentialsError)
    ELSE IF Answers = <<>> THEN NoOutcome
    ELSE LET resp == Answers[1].resp
         IN  IF resp.kind = "timeout" THEN Raised(TimeoutError)
             ELSE IF resp.kind = "connection" THEN Raised(ConnectionError)
             ELSE IF resp.code >= 400 THEN Raised(HTTPError(resp.code))
             ELSE IF resp.body.t = "text" THEN Raised(JSONDecodeError)
             ELSE IF resp.body.t = "list" THEN Raised(AttributeError)
             ELSE NoOutcome

\* the errors a method raises itself, with no collaborator having failed
OwnError ==
    /\ outcome.tag = "raise"
    /\ outcome.kind = "ValueError"
    /\ \/ EndpointMessage(outcome.msg)
       \/ outcome.msg[1] = "Query failed: "

\* C22: no client method swallows or replaces a failure: when the inventory,
\* the signer, the transport or the response handling raises, the method
\* ends with that same error, kind and message, and returns nothing; and an
\* error a method ends with is a collaborator's or one the method raises
\* itself.
C22_ErrorsSurfaced ==
    op \in ClientMethods =>
        /\ CollaboratorError # NoOutcome => outcome = CollaboratorError
        /\ (outcome.tag = "raise" /\ CollaboratorError = NoOutcome) => OwnError

\* query_metrics has ended with the transport's timeout error
C22_Witness ==
    /\ op = "query_metrics"
    /\ Answers # <<>>
    /\ Answers[1].resp.kind = "timeout"
    /\ outcome = Raised(TimeoutError)

-----------------------------------------------------------------------------
(* C23 *)

WorkspaceOps == QueryOps \cup {"get_workspace", "query_metrics"}

\* the status text and the endpoint the inventory holds right now
CurrentStatus(raw) ==
    IF raw.status.t = "str" THEN raw.status.v
    ELSE IF raw.status.statusCode = Absent THEN UnknownLiteral
    ELSE raw.status.statusCode

CurrentEndpoint(raw) == IF raw.prometheusEndpoint = Absent THEN None ELSE raw.prometheusEndpoint

\* C23: no workspace record is cached: every invocation of get_workspace and
\* of a query operation makes exactly one describe call, for the caller's
\* identifier, and works with the record the inventory holds at that moment,
\* so a status or an endpoint that has changed, appeared or disappeared since
\* the last invocation is the one observed.
C23_NoRecordCached ==
    op \in WorkspaceOps =>
        LET raw == inventory[args.workspace_id]
        IN  /\ Len(Describes) = 1
            /\ Describes[1].ws = args.workspace_id
            /\ events[1].ev = "describe"
            /\ raw = NotFound => outcome = Raised(NotFoundError(args.workspace_id))
            /\ (raw # NotFound /\ op = "get_workspace") =>
                  /\ outcome.tag = "return"
                  /\ outcome.value.status = CurrentStatus(raw)
                  /\ outcome.value.prometheus_endpoint = CurrentEndpoint(raw)
            /\ (raw # NotFound /\ op # "get_workspace") =>
                  /\ ~Supplied(CurrentEndpoint(raw)) <=> UnprovisionedError
                  /\ \A i \in DOMAIN Gets :
                        StripsAll(raw.prometheusEndpoint, BeforeApi(Gets[i].endpoint))

\* a workspace that did not exist at first has since been created and lost
\* its endpoint, and execute_query has seen the record without endpoint
C23_Witness ==
    /\ op = "execute_query"
    /\ inventory[args.workspace_id] # NotFound
    /\ inventory[args.workspace_id].prometheusEndpoint = Absent
    /\ Len(Describes) = 1
    /\ UnprovisionedError

-----------------------------------------------------------------------------
(* C24 *)

\* C24: the timeout handed to the transport with each GET is the caller's
\* timeout, and 30 when the caller gives none, in execute_query,
\* get_label_values and get_series; a query that comes through
\* PrometheusClient.query_metrics, which takes no timeout, goes out with 30.
C24_TimeoutPassedOn ==
    /\ op \in QueryOps =>
          \A i \in DOMAIN Gets :
              Gets[i].timeout = IF args.timeout.given THEN args.timeout.v ELSE 30
    /\ op = "query_metrics" => \A i \in DOMAIN Gets : Gets[i].timeout = 30

\* get_label_values has sent its GET with the caller's timeout of 5
C24_Witness ==
    /\ op = "get_label_values"
    /\ args.timeout.given
    /\ Len(Gets) = 1
    /\ Gets[1].timeout = 5

-----------------------------------------------------------------------------
(* C25 *)

FrameEvents(f, kind) == SelectSeq(f.events, LAMBDA e : e.ev = kind)

NotFoundOutcome(f) ==
    f.outcome.tag = "raise" /\ f.outcome.msg[1] = "ResourceNotFoundException: "

\* C25: a client constructed for region R has region R and an inventory
\* client for R, the authenticated client has a signer for R, and every tool
\* invocation with region argument R looks up, signs and queries with
\* clients of region R, be R the module-level client's region or another:
\* the shared client is chosen only when its region is R, the lookup sees
\* the workspaces of R and no others, and every signature and every GET is
\* for R.
C25_RegionConsistency ==
    \A c \in Callers :
        LET f == calls[c]
        IN  /\ f.pc = "chosen" =>
                  IF f.client.shared
                  THEN default_client = ClientFor(f.args.region)
                  ELSE f.client.region = f.args.region
                       /\ f.client.aps_region = f.args.region
            /\ f.pc = "done" =>
                  /\ f.used = ClientFor(f.args.region)
                  /\ \A i \in DOMAIN f.events :
                        /\ f.events[i].ev = "sign" => f.events[i].region = f.args.region
                        /\ f.events[i].ev = "get" =>
                              f.events[i].headers.Authorization.region = f.args.region
                  /\ f.tool = "list_workspaces" =>
                        (f.outcome.tag = "return" =>
                            /\ \A i \in DOMAIN f.outcome.value :
                                  HomeRegion(f.outcome.value[i].workspace_id) = f.args.region
                            /\ \A id \in WorkspaceIds :
                                  (HomeRegion(id) = f.args.region /\ inventory[id] # NotFound)
                                  => \E i \in DOMAIN f.outcome.value :
                                        f.outcome.value[i].workspace_id = id)
                  /\ f.tool # "list_workspaces" =>
                        (NotFoundOutcome(f) <=>
                            (HomeRegion(f.args.workspace_id) # f.args.region
                             \/ inventory[f.args.workspace_id] = NotFound))

\* query_metrics for us-west-2, which is not the module-level client's
\* region, has signed and sent its query
C25_Witness ==
    \E c \in Done :
        /\ calls[c].tool = "query_metrics"
        /\ calls[c].args.region = "us-west-2"
        /\ calls[c].args.region # default_client.region
        /\ Len(FrameEvents(calls[c], "sign")) = 1
        /\ Len(FrameEvents(calls[c], "get")) = 1

-----------------------------------------------------------------------------
(* C26 *)

\* the identifiers of the raw records the inventory lists, in its order
ListedIds == SelectSeq(WorkspaceOrder, LAMBDA id : inventory[id] # NotFound)

\* C26: list_workspaces returns one normalized record per raw record the
\* inventory lists, in the same order, each the record get_workspace gives
\* for that raw record, and fails exactly when get_workspace fails for one
\* of them; and for every raw record list_workspaces and get_workspace of
\* main.py and of simple_server.py end alike, with equal results or with the
\* same error.
C26_DuplicatesAgree ==
    /\ (op = "list_workspaces" /\ Answers[1].resp.kind = "listed") =>
          /\ outcome.tag = "return" =>
                /\ Len(outcome.value) = Len(ListedIds)
                /\ \A i \in DOMAIN ListedIds :
                      Returned(outcome.value[i]) = get_workspace(inventory, ListedIds[i]).outcome
          /\ outcome.tag = "raise" =>
                \E i \in DOMAIN ListedIds :
                    outcome = get_workspace(inventory, ListedIds[i]).outcome
          /\ \E s \in simple_list_workspaces(inventory) :
                s.events = events /\ s.outcome = outcome
    /\ op = "get_workspace" =>
          simple_get_workspace(inventory, args.workspace_id).outcome = outcome

\* list_workspaces has returned two records, the first with a native
\* creation time and a compound status
C26_Witness ==
    /\ op = "list_workspaces"
    /\ outcome.tag = "return"
    /\ Len(outcome.value) = 2
    /\ inventory[Ws1].createdAt = NativeTime
    /\ inventory[Ws1].status.t = "dict"

-----------------------------------------------------------------------------
(* C27 *)

SuccessKeys(tool) ==
    CASE tool = "list_workspaces" -> {"region", "count", "workspaces"}
      [] tool = "get_workspace" -> {"workspace"}
      [] tool = "get_workspace_status" ->
            {"workspace_id", "status", "alias", "prometheus_endpoint", "created_at",
             "has_endpoint"}
      [] tool = "query_metrics" ->
            {"workspace_id", "query", "status", "data", "error", "warnings"}

\* C27: no tool function of main.py raises to the dispatch layer: when the
\* client call fails the tool returns a JSON object whose only key is
\* "error" and whose message ends with the error's message; when it succeeds
\* the tool returns its own object without an "error" key, and for
\* query_metrics the client's result as it is, whose "error" field is the
\* upstream's.
C27_ToolsNeverRaise ==
    \A c \in Done :
        LET f == calls[c]
        IN  /\ f.result.tag = "return"
            /\ f.outcome.tag = "raise" =>
                  /\ DOMAIN f.result.value = {"error"}
                  /\ HasSuffix(f.result.value.error, f.outcome.msg)
                  /\ Len(f.result.value.error) > Len(f.outcome.msg)
            /\ f.outcome.tag = "return" =>
                  /\ DOMAIN f.result.value = SuccessKeys(f.tool)
                  /\ f.tool = "query_metrics" => f.result.value = f.outcome.value
                  /\ f.tool = "get_workspace" => f.result.value.workspace = f.outcome.value
                  /\ f.tool = "list_workspaces" =>
                        /\ f.result.value.workspaces = f.outcome.value
                        /\ f.result.value.count = Len(f.outcome.value)

\* get_workspace_status has answered a not-found error of the inventory
C27_Witness ==
    \E c \in Done :
        /\ calls[c].tool = "get_workspace_status"
        /\ NotFoundOutcome(calls[c])
        /\ DOMAIN calls[c].result.value = {"error"}

-----------------------------------------------------------------------------
(* C28 *)

\* execute_query against the record the caller's region holds for the
\* identifier ends with the missing-endpoint error
FailsEndpointCheck(id, reg) ==
    \A q \in Queries :
        \A s \in execute_query(RegionalView(inventory, reg), credentials, reg,
                               [workspace_id |-> id, query |-> q, start_time |-> None,
                                end_time |-> None, step |-> None, timeout |-> Omitted]) :
            /\ s.outcome.tag = "raise"
            /\ s.outcome.kind = "ValueError"
            /\ EndpointMessage(s.outcome.msg)

\* C28: for every workspace record get_workspace_status reports has_endpoint
\* true exactly when execute_query against the same record passes the
\* endpoint check, an endpoint that is an empty string included.
C28_HasEndpointAgrees ==
    \A c \in Done :
        (calls[c].tool = "get_workspace_status" /\ calls[c].outcome.tag = "return") =>
            (calls[c].result.value.has_endpoint
                <=> ~FailsEndpointCheck(calls[c].args.workspace_id, calls[c].args.region))

-----------------------------------------------------------------------------
(* C29 *)

SuiteTests == IF suite.pc = "idle" THEN <<>> ELSE suite.tests
TestOrder == <<"connection", "list_workspaces", "get_workspace">>
Succeeded(t) == t.status = "success"

\* C29: run_all_tests records its tests in the order connection, list, get;
\* the list test is recorded only after a successful connection test, the
\* get test only after a successful list test that found a workspace, and it
\* asks for the first listed workspace; at the end a test whose gate was
\* not met has no entry and a test whose gate was met has one; main's exit
\* code is 0 exactly when every recorded test succeeded.
C29_GatedOrder ==
    LET tests == SuiteTests
    IN  /\ Len(tests) <= 3
        /\ \A i \in DOMAIN tests : tests[i].test = TestOrder[i]
        /\ Len(tests) >= 2 => Succeeded(tests[1])
        /\ Len(tests) = 3 =>
              /\ Succeeded(tests[2])
              /\ tests[2].count > 0
              /\ tests[3].workspace_id = tests[2].workspaces[1].workspace_id
              /\ suite.events[Len(suite.events)] = DescribeEvent(tests[3].workspace_id)
        /\ suite.pc = "exited" =>
              /\ Len(tests) >= 1
              /\ Len(tests) = 1 <=> ~Succeeded(tests[1])
              /\ Len(tests) = 2 <=>
                    (Succeeded(tests[1]) /\ ~(Succeeded(tests[2]) /\ tests[2].count > 0))
              /\ suite.code \in {0, 1}
              /\ suite.code = 0 <=> \A i \in DOMAIN tests : Succeeded(tests[i])

\* the suite ended with exit code 1 after listing two workspaces and failing
\* to get the first of them
C29_Witness ==
    /\ suite.pc = "exited"
    /\ Len(suite.tests) = 3
    /\ suite.tests[2].count = 2
    /\ suite.tests[3].workspace_id = Ws1
    /\ ~Succeeded(suite.tests[3])
    /\ suite.code = 1

====
